---------------------------- MODULE Spec2Model ----------------------------
(***************************************************************************)
(* A model of gcumos/pickler.py: the scoped packaging session              *)
(* (AcumosContextManager), the dill interceptor it installs (_patch_dill,  *)
(* wrapped_save, _catch_object), the dispatch-table shadow                 *)
(* (_revert_dispatch), and the workspace context (AcumosContext) with its  *)
(* module set and its JSON parameter file.                                 *)
(*                                                                         *)
(* The program is single threaded.  Context managers are generators: the  *)
(* code before the yield is one action (Open, RevertEnter), the code after *)
(* it (the finally blocks included) is another (Close, RevertExit).        *)
(***************************************************************************)
EXTENDS Naturals, Sequences, FiniteSets, TLC

(***************************************************************************)
(* Bounds of the model.                                                    *)
(***************************************************************************)
\* Deepest nesting of subscriptions in the annotations pickled (Dict[str, List[int]]: 2).
MaxNest == 2
\* Deepest nesting of `with AcumosContextManager(...)` blocks explored.
MaxDepth == 2
\* Parameter values a caller stores are the JSON numbers 1..MaxVal.
MaxVal == 2

(***************************************************************************)
(* Values of the program.                                                  *)
(***************************************************************************)
None == "None"

_DEFAULT == "default"

\* Session names the callers use; get_context() defaults to _DEFAULT.
Names == {_DEFAULT, "a"}

\* Module names are dotted paths, kept as their sequence of segments.
_DEFAULT_MODULES == <<(<<"gcumos">>), (<<"dill">>)>>

_BLACKLIST == {<<"builtins">>}

\* type objects that key dill.Pickler.dispatch in this model
Types == {"GenericMeta", "dict", "type", "UserType"}

\* marks a key that a dict does not hold
NoEntry == "<absent>"

\* dill.Pickler.dispatch once pickler.py is imported: dill's stock entries
\* (two of them kept) and the GenericMeta entry line 106 installs.
ImportedDispatch ==
    [t \in Types |->
        CASE t = "GenericMeta" -> "_save_annotation"
          [] t = "dict"        -> "save_module_dict"
          [] t = "type"        -> "save_type"
          [] OTHER             -> NoEntry]

\* _CUSTOM_DISPATCH = {}: import path -> save function; empty in the source.
_CUSTOM_DISPATCH == [p \in {} |-> NoEntry]

(***************************************************************************)
(* Modules (sys.modules): name -> module object.  A module object is the   *)
(* record of the attributes the code reads, __name__ and __package__;     *)
(* __package__ is "" or None for a module outside any package.            *)
(***************************************************************************)
Module(name, package) == [name |-> name, package |-> package]

SysModules ==
    { Module(<<"gcumos">>, "gcumos"),
      Module(<<"gcumos", "modeling">>, "gcumos"),
      Module(<<"dill">>, "dill"),
      Module(<<"A">>, "A"),
      Module(<<"A", "b">>, "A"),
      Module(<<"S">>, ""),
      Module(<<"typing">>, ""),
      Module(<<"__main__">>, None),
      Module(<<"builtins">>, "") }

ModuleNames == { m.name : m \in SysModules }

SysModule(name) == CHOOSE m \in SysModules : m.name = name

Truthy(x) == x # "" /\ x # None

\* None where a module name, and where a module object, is expected
NoName == <<>>

NoModule == Module(NoName, None)

(***************************************************************************)
(* Objects handed to the save primitive: the module inspect.getmodule      *)
(* finds for them (None when there is none), their type, the import paths  *)
(* of the type's MRO, and whether they are a NamedTuple class / Empty.     *)
(***************************************************************************)
Obj(module, type, mro, kind) ==
    [module |-> module, type |-> type, mro |-> mro, kind |-> kind]

Objects ==
    { Obj(NoName, "dict", <<"builtins.dict", "builtins.object">>, "other"),
      Obj(<<"builtins">>, "UserType", <<"builtins.int", "builtins.object">>, "other"),
      Obj(<<"A", "b">>, "UserType", <<"A.b.C", "builtins.object">>, "other"),
      Obj(<<"A", "b">>, "UserType", <<"A.b.Rec", "builtins.tuple", "builtins.object">>, "namedtuple"),
      Obj(<<"S">>, "UserType", <<"S.f", "builtins.object">>, "other"),
      Obj(<<"__main__">>, "UserType", <<"__main__.g", "builtins.object">>, "other"),
      Obj(<<"gcumos", "modeling">>, "UserType", <<"gcumos.modeling.Empty", "builtins.tuple", "builtins.object">>, "Empty") }

NoObj == Obj(NoName, None, <<>>, None)

(***************************************************************************)
(* Annotations: the classes of typing whose type is GenericMeta (Dict,     *)
(* List, a user Generic class) and their subscriptions, and plain classes. *)
(* A class is the record of what the code reads: type(obj) (meta),         *)
(* __origin__ (the name of the class that was subscripted, None for a      *)
(* class that is no subscription), __args__ (None or a tuple), and the     *)
(* name and module it is imported by.                                      *)
(***************************************************************************)
Args(items) == [none |-> FALSE, items |-> items]

\* __args__ is None
NoArgs == [none |-> TRUE, items |-> <<>>]

Class(name, meta, module) ==
    [name |-> name, meta |-> meta, module |-> module, origin |-> None, args |-> NoArgs]

Dict == Class("Dict", "GenericMeta", <<"typing">>)

List == Class("List", "GenericMeta", <<"typing">>)

\* plain classes, Dict and List, and a user Generic class defined inside a
\* function of the entry script, which no name imports
Classes ==
    { Class("int", "type", <<"builtins">>), Class("str", "type", <<"builtins">>),
      Dict, List,
      Class("Local", "GenericMeta", <<"__main__">>) }

Importable == { c \in Classes : c.name # "Local" }

ClassNamed(name) == CHOOSE c \in Classes : c.name = name

\* g[params] (GenericMeta.__getitem__): the subscription of g
GetItem(g, params) ==
    [name |-> g.name, meta |-> "GenericMeta", module |-> g.module,
     origin |-> g.name, args |-> Args(params)]

\* the types of dict keys in the annotations pickled
KeyTypes == { ClassNamed("str") }

RECURSIVE Annotations(_)
\* the annotations nested n deep at most
Annotations(n) ==
    IF n = 0 THEN Classes
    ELSE LET A == Annotations(n - 1)
         IN  A \cup { GetItem(List, <<x>>) : x \in A }
               \cup { GetItem(Dict, <<k, v>>) : k \in KeyTypes, v \in A }

\* the annotations the callers pickle
Pickleable == Annotations(MaxNest)

\* the hook sees an annotation as any other object
AsObj(x) == Obj(x.module, x.meta, <<"builtins.object">>, "other")

(***************************************************************************)
(* What the pickler writes for a class: a reference by name, or a call of  *)
(* _load_annotation on the pickled (t, args).                              *)
(***************************************************************************)
Pickled(op, name, items) == [op |-> op, name |-> name, items |-> items]

\* nothing usable was written: the save raised
Nothing == Pickled("error", "", <<>>)

\* a decoder that forgets the arguments
LoadPlain(t, args) == t

\* _load_annotation (lines 68-75)
LoadAnnotation(t, args) ==
    IF t = Dict /\ ~args.none
    THEN GetItem(Dict, <<args.items[1], args.items[2]>>)
    ELSE IF t = List /\ ~args.none
         THEN GetItem(List, <<args.items[1]>>)
         ELSE t

RECURSIVE Loads(_)
\* the unpickler: a reference is imported by its name, a reduce calls
\* _load_annotation on the unpickled (t, args)
Loads(p) ==
    IF p.op = "global" THEN ClassNamed(p.name)
    ELSE LoadAnnotation(
             Loads(p.items[1]),
             IF p.items[2].op = "none" THEN NoArgs
             ELSE Args([i \in 1..Len(p.items[2].items) |-> Loads(p.items[2].items[i])]))

\* the (t, args) that _save_annotation hands to save_reduce (lines 55-58, 61-62)
ReduceArgs(obj) ==
    IF obj.origin \in {Dict.name, List.name}
    THEN <<ClassNamed(obj.origin), obj.args>>
    ELSE <<obj, NoArgs>>

(***************************************************************************)
(* The file system: directories and the context.json under each.          *)
(***************************************************************************)
\* the name tempfile.TemporaryDirectory() picks for the session at depth i
TmpDir(i) == "tmp" \o ToString(i)

\* explicit rootdir arguments the callers pass: one that exists, one that does not
ExplicitRoots == {"root", "missing"}

AllDirs == ExplicitRoots \cup { TmpDir(i) : i \in 1..(MaxDepth + 1) }

\* a context.json: whether it is there, and its JSON text, the members of the
\* JSON object in the order written, each <<key text, value>>
File(text) == [exists |-> TRUE, text |-> text]

NoFile == [exists |-> FALSE, text |-> <<>>]

(***************************************************************************)
(* Parameters: a Python dict, kept as the sequence of its items            *)
(* <<key, value>> in insertion order, no key twice.  A key is a str or an  *)
(* int (kept with its type, its text being what str() gives); a value is   *)
(* a JSON number.                                                          *)
(***************************************************************************)
Key(type, text) == [type |-> type, text |-> text]

\* keys a caller assigns
CallerKeys == { Key("str", "1"), Key("int", "1") }

Values == 1..MaxVal

EmptyDict == <<>>

\* d[k] = v: a key the dict holds keeps its place
DictSet(d, k, v) ==
    IF \E i \in 1..Len(d) : d[i][1] = k
    THEN [i \in 1..Len(d) |-> IF d[i][1] = k THEN <<k, v>> ELSE d[i]]
    ELSE Append(d, <<k, v>>)

\* d1 == d2 in Python: the same items, in any order
DictEq(d1, d2) == { d1[i] : i \in 1..Len(d1) } = { d2[i] : i \in 1..Len(d2) }

(***************************************************************************)
(* json.dump / json.load on a parameter dict.  json.dump writes the items  *)
(* in the dict's order and turns every key into a string (an int key n     *)
(* becomes "n"), without looking for keys that thereby collide; json.load  *)
(* builds the dict member by member, a repeated key keeping its last       *)
(* value.                                                                  *)
(***************************************************************************)
JsonDump(d) == [i \in 1..Len(d) |-> <<d[i][1].text, d[i][2]>>]

RECURSIVE JsonLoad(_)
JsonLoad(text) ==
    IF text = <<>> THEN EmptyDict
    ELSE LET n == Len(text)
         IN  DictSet(JsonLoad(SubSeq(text, 1, n - 1)), Key("str", text[n][1]), text[n][2])

(***************************************************************************)
(* AcumosContext                                                           *)
(***************************************************************************)
Context(root_dir, modules, parameters) ==
    [root_dir |-> root_dir, modules |-> modules, parameters |-> parameters]

NoContext == Context(None, {}, EmptyDict)

\* a constructor that does not read the file
LoadNothing(fs, root_dir) == EmptyDict

\* AcumosContext._load_params
LoadParams(fs, root_dir) ==
    IF fs[root_dir].exists THEN JsonLoad(fs[root_dir].text) ELSE EmptyDict

\* AcumosContext.save_params: the files after the call
SaveParams(fs, ctx) ==
    [fs EXCEPT ![ctx.root_dir] = File(JsonDump(ctx.parameters))]

\* An argument of add_module: a module object, a str (held in the name field
\* of value), or anything else.
ModuleArg(kind, value) == [kind |-> kind, value |-> value]

\* an add_module that rebinds the set instead of adding to it
AddModuleReplacing(modules, arg) ==
    IF arg.kind = "module" THEN [err |-> "none", about |-> NoName, modules |-> {arg.value}]
    ELSE IF arg.kind = "str" /\ arg.value.name \in ModuleNames
         THEN [err |-> "none", about |-> NoName, modules |-> {SysModule(arg.value.name)}]
         ELSE [err |-> "TypeMismatch", about |-> NoName, modules |-> modules]

\* an add_module that takes whatever it is given
AddModuleUnchecked(modules, arg) ==
    [err |-> "none", about |-> NoName,
     modules |-> modules \cup {IF arg.kind = "str" /\ arg.value.name \in ModuleNames
                               THEN SysModule(arg.value.name) ELSE arg.value}]

\* AcumosContext.add_module: the error raised ("none": none), the module name
\* its message is formatted with (NoName: none) and the module set after
AddModule(modules, arg) ==
    IF arg.kind = "str"
    THEN IF arg.value.name \in ModuleNames
         THEN [err |-> "none", about |-> NoName,
               modules |-> modules \cup {SysModule(arg.value.name)}]
         ELSE [err |-> "ImportFailed", about |-> arg.value.name, modules |-> modules]
    ELSE IF arg.kind # "module"
         THEN [err |-> "TypeMismatch", about |-> NoName, modules |-> modules]
         ELSE [err |-> "none", about |-> NoName, modules |-> modules \cup {arg.value}]

RECURSIVE AddDefaults(_, _)
\* the loop of AcumosContext.__init__ over _DEFAULT_MODULES, from the i-th on
AddDefaults(r, i) ==
    IF i > Len(_DEFAULT_MODULES) \/ r.err # "none" THEN r
    ELSE AddDefaults(AddModule(r.modules, ModuleArg("str", Module(_DEFAULT_MODULES[i], None))), i + 1)

\* AcumosContext.__init__: the error raised and the object built
NewContext(ds, fs, root_dir) ==
    IF root_dir \notin ds
    THEN [err |-> "ContextRootMissing", context |-> NoContext]
    ELSE LET r == AddDefaults([err |-> "none", about |-> NoName, modules |-> {}], 1)
         IN  [err |-> r.err,
              context |-> Context(root_dir, r.modules, LoadParams(fs, root_dir))]

\* the views of a context
Packages(ctx) == { m \in ctx.modules : Truthy(m.package) }

PackageNames(ctx) == { m.name : m \in Packages(ctx) }

\* a scripts view that forgets the entry module
ScriptsWithMain(ctx) == { m \in ctx.modules : ~Truthy(m.package) }

Scripts(ctx) ==
    { s \in { m \in ctx.modules : ~Truthy(m.package) } : s.name # <<"__main__">> }

ScriptNames(ctx) == { m.name : m \in Scripts(ctx) }

\* _get_base_module: partition('.') keeps the first segment
GetBaseModule(obj) ==
    IF obj.module # NoName THEN SysModule(<<Head(obj.module)>>) ELSE NoModule

VARIABLES
    tables,      \* the dispatch dict objects alive, by identity (index): contents
    dispatch,    \* dill.Pickler.dispatch: the identity of the installed dict
    save,        \* dill.Pickler.save: 0 is dill's own, k the wrapped_save made by frame k
    _contexts,   \* the module-level dict: session name -> context (frame index)
    stack,       \* the suspended AcumosContextManager generators, outermost first
    shadow,      \* the suspended _revert_dispatch generators, outermost first
    dirs,        \* the directories that exist
    files,       \* directory -> content of its context.json, or NoFile
    last,        \* the last call made by the caller and how it ended
    closed       \* history: the session names that have been closed cleanly

vars == <<tables, dispatch, save, _contexts, stack, shadow, dirs, files, last, closed>>

Depth == Len(stack)

\* how a call of the caller ended: the exception it raised ("none": it returned),
\* the context it returned or was called on (by frame index, 0: none) and the
\* calls it made, in order
Ended(op, name, obj, err, ret, log) ==
    [op |-> op, name |-> name, obj |-> obj, err |-> err, ret |-> ret, log |-> log]

(***************************************************************************)
(* The steps of the code are functions of the program state S: a record    *)
(* of the variables above, the pending exception (err) and the log of the  *)
(* calls made so far.  A frame of `stack` holds the locals of one          *)
(* AcumosContextManager generator and of the _patch_dill generator it      *)
(* entered.                                                                *)
(***************************************************************************)
Cur ==
    [tables |-> tables, dispatch |-> dispatch, save |-> save, reg |-> _contexts,
     stack |-> stack, shadow |-> shadow, dirs |-> dirs, files |-> files,
     err |-> "none", log |-> <<>>]

Top(S) == S.stack[Len(S.stack)]

SetTop(S, fr) == [S EXCEPT !.stack[Len(S.stack)] = fr]

Logged(S, call) == [S EXCEPT !.log = Append(S.log, call)]

Raise(S, e) == [S EXCEPT !.err = e]

\* copy.deepcopy of a dispatch dict: a new dict with the same items (types and
\* functions are copied by reference)
DeepCopy(d) == [t \in DOMAIN d |-> d[t]]

\* a finally that leaves the installed wrapper in place
SaveLeftInstalled(fr) == save

\* what _patch_dill's finally puts back into dill.Pickler.save (line 135)
RestoredSave(fr) == fr.pickler_save

\* what _patch_dill's finally puts back into dill.Pickler.dispatch (line 134)
RestoredDispatch(fr) == fr.dispatch

\* a _patch_dill that makes the copy and leaves the dict in place
PatchDillEnterSharing(S, name, rootdir) ==
    LET fr == [name |-> name, rootdir |-> rootdir,
               dispatch |-> S.dispatch, pickler_save |-> S.save,
               root |-> None, owned |-> FALSE, context |-> NoContext,
               pre |-> [dispatch |-> S.dispatch, save |-> S.save,
                        table |-> S.tables[S.dispatch]]]
    IN  Logged([S EXCEPT !.tables = Append(S.tables, DeepCopy(S.tables[S.dispatch])),
                         !.save = Len(S.stack) + 1,
                         !.stack = Append(S.stack, fr)], "patch")

\* _patch_dill up to its yield (lines 116-132), entered by the generator of
\* AcumosContextManager(rootdir, name)
PatchDillEnter(S, name, rootdir) ==
    LET fr == [name |-> name, rootdir |-> rootdir,
               dispatch |-> S.dispatch, pickler_save |-> S.save,
               root |-> None, owned |-> FALSE, context |-> NoContext,
               pre |-> [dispatch |-> S.dispatch, save |-> S.save,
                        table |-> S.tables[S.dispatch]]]
    IN  Logged([S EXCEPT !.tables = Append(S.tables, DeepCopy(S.tables[S.dispatch])),
                         !.dispatch = Len(S.tables) + 1,
                         !.save = Len(S.stack) + 1,
                         !.stack = Append(S.stack, fr)], "patch")

\* _patch_dill's finally (lines 133-135); the generator frame and the copy it
\* made are dropped
PatchDillExit(S) ==
    LET fr == Top(S)
    IN  Logged([S EXCEPT !.dispatch = RestoredDispatch(fr),
                         !.save = RestoredSave(fr),
                         !.tables = SubSeq(S.tables, 1, Len(S.tables) - 1),
                         !.stack = SubSeq(S.stack, 1, Len(S.stack) - 1)], "restore")

\* _DirManager up to its yield (lines 278-284)
DirManagerEnter(S) ==
    LET fr == Top(S)
    IN  IF fr.rootdir # None
        THEN IF fr.rootdir \notin S.dirs
             THEN Raise(S, "RootdirMissing")
             ELSE SetTop(S, [fr EXCEPT !.root = fr.rootdir])
        ELSE LET tdir == TmpDir(Len(S.stack))
             IN  Logged(SetTop([S EXCEPT !.dirs = S.dirs \cup {tdir},
                                         !.files[tdir] = NoFile],
                               [fr EXCEPT !.root = tdir, !.owned = TRUE]), "mkdtemp")

\* a _DirManager that leaves its temporary directory behind
DirManagerExitKeeping(S) == S

\* leaving `with _DirManager(...)`: TemporaryDirectory removes what it made
DirManagerExit(S) ==
    LET fr == Top(S)
    IN  IF fr.owned
        THEN Logged([S EXCEPT !.dirs = S.dirs \ {fr.root},
                              !.files[fr.root] = NoFile], "rmtree")
        ELSE S

\* a manager that unregisters after the body only when it did not raise
DelWithoutFinally(S) ==
    LET name == Top(S).name
    IN  IF S.err = "none"
        THEN Logged([S EXCEPT !.reg = [n \in (DOMAIN S.reg) \ {name} |-> S.reg[n]]], "del")
        ELSE S

\* the finally of AcumosContextManager (line 272): del _contexts[name]; a
\* KeyError raised here replaces the exception that was propagating
FinallyDel(S) ==
    LET name == Top(S).name
    IN  IF name \in DOMAIN S.reg
        THEN Logged([S EXCEPT !.reg = [n \in (DOMAIN S.reg) \ {name} |-> S.reg[n]]], "del")
        ELSE Raise(S, "KeyError")

\* lines 267-268: build the context and register it
BuildContext(S) ==
    LET fr == Top(S)
        r  == NewContext(S.dirs, S.files, fr.root)
    IN  IF r.err # "none" THEN Raise(S, r.err)
        ELSE LET S1 == SetTop(S, [fr EXCEPT !.context = r.context])
             IN  [S1 EXCEPT !.reg = [n \in (DOMAIN S.reg) \cup {fr.name} |->
                                        IF n = fr.name THEN Len(S.stack) ELSE S.reg[n]]]

\* a manager without the name check
NameNeverTaken(S, name) == FALSE

\* the name check of line 263
NameTaken(S, name) == name \in DOMAIN S.reg

\* a manager whose name check is inside the try
OpenStepsCheckingInTry(S, name, rootdir) ==
    LET S1 == PatchDillEnter(S, name, rootdir)
    IN  IF NameTaken(S1, name)
        THEN PatchDillExit(FinallyDel(Raise(S1, "AlreadyCreated")))
        ELSE LET S2 == DirManagerEnter(S1)
             IN  IF S2.err # "none"
                 THEN PatchDillExit(FinallyDel(S2))
                 ELSE LET S3 == BuildContext(S2)
                      IN  IF S3.err # "none"
                          THEN PatchDillExit(FinallyDel(DirManagerExit(S3)))
                          ELSE S3

\* AcumosContextManager up to its yield (lines 262-269)
OpenSteps(S, name, rootdir) ==
    LET S1 == PatchDillEnter(S, name, rootdir)
    IN  IF NameTaken(S1, name)
        THEN PatchDillExit(Raise(S1, "AlreadyCreated"))
        ELSE LET S2 == DirManagerEnter(S1)
             IN  IF S2.err # "none"
                 THEN PatchDillExit(FinallyDel(S2))
                 ELSE LET S3 == BuildContext(S2)
                      IN  IF S3.err # "none"
                          THEN PatchDillExit(FinallyDel(DirManagerExit(S3)))
                          ELSE S3

\* a manager that saves the parameters in its finally
SaveAlwaysAtClose(S) ==
    Logged([S EXCEPT !.files = SaveParams(S.files, Top(S).context)], "save_params")

\* line 270: reached only when the body of the with block did not raise
SaveAtClose(S) ==
    IF S.err = "none"
    THEN Logged([S EXCEPT !.files = SaveParams(S.files, Top(S).context)], "save_params")
    ELSE S

\* a manager that unregisters in the finally of _patch_dill, after the restore
CloseRestoringFirst(S, exc) ==
    LET name == Top(S).name
        S1   == PatchDillExit(DirManagerExit(SaveAtClose(Raise(S, exc))))
    IN  Logged([S1 EXCEPT !.reg = [n \in (DOMAIN S1.reg) \ {name} |-> S1.reg[n]]], "del")

\* AcumosContextManager after its yield (lines 270-272 and the exits of the
\* with blocks), the exception exc having been raised in the body ("none": none)
CloseSteps(S, exc) ==
    PatchDillExit(FinallyDel(DirManagerExit(SaveAtClose(Raise(S, exc)))))

\* get_context
GetContext(S, name) ==
    IF name \in DOMAIN S.reg
    THEN [err |-> "none", ret |-> S.reg[name]]
    ELSE [err |-> "NotCreated", ret |-> 0]


\* the registration of _catch_object (lines 142-146): the import paths of the
\* type's MRO that _CUSTOM_DISPATCH knows; the loop does not break, so the last wins
CustomMatches(obj) == { i \in 1..Len(obj.mro) : obj.mro[i] \in DOMAIN _CUSTOM_DISPATCH }

LastOf(set) == CHOOSE i \in set : \A j \in set : j <= i

ExtendDispatch(S, obj) ==
    IF S.tables[S.dispatch][obj.type] = NoEntry /\ CustomMatches(obj) # {}
    THEN [S EXCEPT !.tables[S.dispatch][obj.type] =
                       _CUSTOM_DISPATCH[obj.mro[LastOf(CustomMatches(obj))]]]
    ELSE S

\* the session name _catch_object looks its context up under (line 150)
CatchName == _DEFAULT

\* _catch_object (lines 138-151)
CatchObject(S, obj) ==
    LET S1 == Logged(ExtendDispatch(S, obj), "_catch_object")
        base_module == GetBaseModule(obj)
    IN  IF base_module # NoModule /\ base_module.name \notin _BLACKLIST
        THEN LET c == GetContext(S1, CatchName)
             IN  IF c.err # "none" THEN Raise(S1, c.err)
                 ELSE LET r == AddModule(S1.stack[c.ret].context.modules,
                                         ModuleArg("module", base_module))
                      IN  IF r.err # "none" THEN Raise(S1, r.err)
                          ELSE [S1 EXCEPT !.stack[c.ret].context.modules = r.modules]
        ELSE S1

\* _is_namedtuple(obj) and obj is not Empty (line 126)
RoutedToNamedtuple(obj) == obj.kind \in {"namedtuple", "Empty"} /\ obj.kind # "Empty"

RECURSIVE SaveVia(_, _, _)
\* a call of the save function k (0: dill's own save, k > 0: the wrapped_save
\* closure of frame k, lines 122-129) on obj
SaveVia(k, S, obj) ==
    IF k = 0 THEN Logged(S, "pickler_save")
    ELSE LET S1 == CatchObject(S, obj)
         IN  IF S1.err # "none" THEN S1
             ELSE IF RoutedToNamedtuple(obj)
                  THEN Logged(S1, "_save_namedtuple")
                  ELSE SaveVia(S.stack[k].pickler_save, S1, obj)

\* a _revert_dispatch that pops with a default
RevertEnterDefaulting(S, t) ==
    LET f == S.tables[S.dispatch][t]
    IN  [S EXCEPT !.tables[S.dispatch][t] = NoEntry,
                  !.shadow = Append(S.shadow, [t |-> t, f |-> f])]

\* _revert_dispatch(t) up to its yield (line 92): pop raises KeyError when t
\* has no entry
RevertEnterSteps(S, t) ==
    LET f == S.tables[S.dispatch][t]
    IN  IF f = NoEntry THEN Raise(S, "KeyError")
        ELSE [S EXCEPT !.tables[S.dispatch][t] = NoEntry,
                       !.shadow = Append(S.shadow, [t |-> t, f |-> f])]

\* a _revert_dispatch without the finally
RevertExitForgetting(S) ==
    [S EXCEPT !.shadow = SubSeq(S.shadow, 1, Len(S.shadow) - 1)]

\* the finally of _revert_dispatch (line 96)
RevertExitSteps(S) ==
    LET fr == S.shadow[Len(S.shadow)]
    IN  [S EXCEPT !.tables[S.dispatch][fr.t] = fr.f,
                  !.shadow = SubSeq(S.shadow, 1, Len(S.shadow) - 1)]

(***************************************************************************)
(* Pickling an annotation.  Every operator gives the program state after   *)
(* the call (S) and what was written (out).  The log lists, in order, the  *)
(* hook calls, the function the dispatch lookup found for each object      *)
(* saved (NoEntry: none), and the pop and the reinstating of               *)
(* _revert_dispatch.  The hook calls made for the function                 *)
(* _load_annotation, the tuples and None are left out: they record gcumos  *)
(* at most, which every context holds.                                     *)
(***************************************************************************)
RECURSIVE PicklerSave(_, _), WrappedSave(_, _, _), SaveAnnotation(_, _), SaveReduce(_, _, _), SaveItems(_, _, _, _)

\* the stock path for a class: a reference by name, which the unpickler must
\* be able to import and find to be the same object
SaveGlobal(S, obj) ==
    IF obj.origin # None \/ obj \notin Importable
    THEN [S |-> Raise(S, "PicklingError"), out |-> Nothing]
    ELSE [S |-> S, out |-> Pickled("global", obj.name, <<>>)]

\* dill's own Pickler.save on a class: the lookup of type(obj) in
\* dill.Pickler.dispatch
DillSave(S, obj) ==
    LET f == S.tables[S.dispatch][obj.meta]
    IN  IF f = "_save_annotation"
        THEN SaveAnnotation(Logged(S, f), obj)
        ELSE SaveGlobal(Logged(S, f), obj)

\* the save function k on a class (0: dill's own; k > 0: the wrapped_save of
\* frame k, lines 122-129; a class of this model is no NamedTuple)
WrappedSave(k, S, obj) ==
    IF k = 0 THEN DillSave(S, obj)
    ELSE LET S1 == CatchObject(S, AsObj(obj))
         IN  IF S1.err # "none" THEN [S |-> S1, out |-> Nothing]
             ELSE WrappedSave(S.stack[k].pickler_save, S1, obj)

\* pickler.save(obj)
PicklerSave(S, obj) == WrappedSave(S.save, S, obj)

\* the elements of the tuple items from the i-th on, acc being written already
SaveItems(S, items, i, acc) ==
    IF i > Len(items) THEN [S |-> S, out |-> acc]
    ELSE LET r == PicklerSave(S, items[i])
         IN  IF r.S.err # "none" THEN [S |-> r.S, out |-> acc]
             ELSE SaveItems(r.S, items, i + 1, Append(acc, r.out))

\* pickler.save_reduce(_load_annotation, (t, args), obj=obj): the tuple is
\* saved element by element
SaveReduce(S, t, args) ==
    LET r1 == PicklerSave(S, t)
    IN  IF r1.S.err # "none" THEN [S |-> r1.S, out |-> Nothing]
        ELSE IF args.none
             THEN [S |-> r1.S,
                   out |-> Pickled("reduce", "_load_annotation",
                                   <<r1.out, Pickled("none", "", <<>>)>>)]
             ELSE LET r2 == SaveItems(r1.S, args.items, 1, <<>>)
                  IN  IF r2.S.err # "none" THEN [S |-> r2.S, out |-> Nothing]
                      ELSE [S |-> r2.S,
                            out |-> Pickled("reduce", "_load_annotation",
                                            <<r1.out, Pickled("tuple", "", r2.out)>>)]

\* _save_annotation (lines 53-65)
SaveAnnotation(S, obj) ==
    LET t    == ReduceArgs(obj)[1]
        args == ReduceArgs(obj)[2]
    IN  IF obj.origin \in {Dict.name, List.name}
        THEN SaveReduce(S, t, args)
        ELSE LET S1 == RevertEnterSteps(S, "GenericMeta")
             IN  IF S1.err # "none" THEN [S |-> S1, out |-> Nothing]
                 ELSE LET r == SaveReduce(Logged(S1, "pop"), t, args)
                      IN  [S |-> Logged(RevertExitSteps(r.S), "reinstate"), out |-> r.out]

Commit(S) ==
    /\ tables' = S.tables
    /\ dispatch' = S.dispatch
    /\ save' = S.save
    /\ _contexts' = S.reg
    /\ stack' = S.stack
    /\ shadow' = S.shadow
    /\ dirs' = S.dirs
    /\ files' = S.files

Init ==
    /\ tables = <<ImportedDispatch>>
    /\ dispatch = 1
    /\ save = 0
    /\ _contexts = [n \in {} |-> 0]
    /\ stack = <<>>
    /\ shadow = <<>>
    /\ dirs = {"root"}
    /\ files = [d \in AllDirs |-> NoFile]
    /\ last = Ended("import", None, NoObj, "none", 0, <<>>)
    /\ closed = {}

\* with AcumosContextManager(rootdir, name) as ctx: entering.  Sessions are
\* opened and closed by the caller, not from inside the pickling of an
\* annotation (shadow is empty), and nest strictly.
Open(name, rootdir) ==
    /\ Depth < MaxDepth
    /\ shadow = <<>>
    /\ LET S == OpenSteps(Cur, name, rootdir)
       IN  /\ Commit(S)
           /\ last' = Ended("open", name, NoObj, S.err,
                            IF S.err = "none" THEN Len(S.stack) ELSE 0, S.log)
    /\ UNCHANGED closed

\* leaving the innermost with block, its body having raised exc or not
Close(exc) ==
    /\ Depth > 0
    /\ shadow = <<>>
    /\ LET S == CloseSteps(Cur, exc)
       IN  /\ Commit(S)
           /\ last' = Ended("close", Top(Cur).name, NoObj, S.err, Depth, S.log)
           /\ closed' = IF S.err = "none" THEN closed \cup {Top(Cur).name} ELSE closed

\* get_context(name), called by the caller
GetContextCall(name) ==
    /\ LET r == GetContext(Cur, name)
       IN  last' = Ended("get_context", name, NoObj, r.err, r.ret, <<>>)
    /\ UNCHANGED <<tables, dispatch, save, _contexts, stack, shadow, dirs, files, closed>>

\* the pickler saves obj: a call of dill.Pickler.save made while the caller
\* dumps a model inside the innermost with block
Save(obj) ==
    /\ Depth > 0
    /\ LET S == SaveVia(save, Cur, obj)
       IN  /\ Commit(S)
           /\ last' = Ended("save", None, obj, S.err, 0, S.log)
    /\ UNCHANGED closed

\* with _revert_dispatch(t): entering (the pickler is saving an annotation)
RevertEnter(t) ==
    /\ LET S == RevertEnterSteps(Cur, t)
       IN  /\ Commit(S)
           /\ last' = Ended("revert_enter", t, NoObj, S.err, 0, <<>>)
    /\ UNCHANGED closed

\* leaving the innermost `with _revert_dispatch(t)`, its body having raised or not
RevertExit(exc) ==
    /\ shadow # <<>>
    /\ LET S == RevertExitSteps(Raise(Cur, exc))
       IN  /\ Commit(S)
           /\ last' = Ended("revert_exit", shadow[Len(shadow)].t, NoObj, S.err, 0, <<>>)
    /\ UNCHANGED closed

\* ctx.add_module(arg), ctx being the context of frame i; the name recorded is
\* the one the error message is formatted with
AddModuleCall(i, arg) ==
    /\ i \in 1..Depth
    /\ LET r == AddModule(stack[i].context.modules, arg)
       IN  /\ stack' = [stack EXCEPT ![i].context.modules = r.modules]
           /\ last' = Ended("add_module", r.about, NoObj, r.err, i, <<>>)
    /\ UNCHANGED <<tables, dispatch, save, _contexts, shadow, dirs, files, closed>>

\* ctx.parameters[k] = v, ctx being the context of frame i
SetParam(i, k, v) ==
    /\ i \in 1..Depth
    /\ stack' = [stack EXCEPT ![i].context.parameters = DictSet(@, k, v)]
    /\ last' = Ended("set_param", None, NoObj, "none", i, <<>>)
    /\ UNCHANGED <<tables, dispatch, save, _contexts, shadow, dirs, files, closed>>

\* ctx.save_params(), called by the caller
SaveParamsCall(i) ==
    /\ i \in 1..Depth
    /\ files' = SaveParams(files, stack[i].context)
    /\ last' = Ended("save_params", None, NoObj, "none", i, <<"save_params">>)
    /\ UNCHANGED <<tables, dispatch, save, _contexts, stack, shadow, dirs, closed>>

\* dump_model(obj, file), obj being an annotation: the pickler saves it.  ret
\* is what load_model gives back for what was written.
Dump(obj) ==
    /\ shadow = <<>>
    /\ LET r == PicklerSave(Cur, obj)
       IN  /\ Commit(r.S)
           /\ last' = Ended("dump", None, obj, r.S.err,
                            IF r.S.err = "none" THEN Loads(r.out) ELSE Nothing, r.S.log)
    /\ UNCHANGED closed

\* arguments the callers give add_module
ModuleArgs ==
    { ModuleArg("module", SysModule(<<"S">>)), ModuleArg("str", Module(<<"A", "b">>, None)),
      ModuleArg("str", Module(<<"nosuch">>, None)), ModuleArg("other", NoModule) }

(***************************************************************************)
(* The callers.  Every specification opens and closes sessions; they       *)
(* differ in what the bodies of the with blocks do.                        *)
(***************************************************************************)
Sessions ==
    \/ \E name \in Names, rootdir \in ExplicitRoots \cup {None} : Open(name, rootdir)
    \/ \E exc \in {"none", "BodyRaised"} : Close(exc)

\* the bodies look contexts up and pickle annotations
Next ==
    \/ Sessions
    \/ \E name \in Names : GetContextCall(name)
    \/ \E t \in Types : RevertEnter(t)
    \/ \E exc \in {"none", "BodyRaised"} : RevertExit(exc)

Spec == Init /\ [][Next]_vars

\* the bodies pickle objects and add modules by hand
NextModules ==
    \/ Sessions
    \/ \E obj \in Objects : Save(obj)
    \/ \E i \in 1..MaxDepth, arg \in ModuleArgs : AddModuleCall(i, arg)

SpecModules == Init /\ [][NextModules]_vars

\* the callers use the default session name only (so no session is nested in
\* another); the bodies edit and save the parameters of their context
NextParams ==
    \/ \E rootdir \in ExplicitRoots \cup {None} : Open(_DEFAULT, rootdir)
    \/ \E exc \in {"none", "BodyRaised"} : Close(exc)
    \/ \E k \in CallerKeys, v \in Values : SetParam(Depth, k, v)
    \/ SaveParamsCall(Depth)

SpecParams == Init /\ [][NextParams]_vars

\* the callers open the default session on a temporary root (so no session is
\* nested in another); they pickle annotations inside and outside of it
NextAnnotations ==
    \/ Open(_DEFAULT, None)
    \/ \E exc \in {"none", "BodyRaised"} : Close(exc)
    \/ \E obj \in Pickleable : Dump(obj)

SpecAnnotations == Init /\ [][NextAnnotations]_vars

(***************************************************************************)
(* Properties of the session manager and the interceptor, under Spec.      *)
(***************************************************************************)
Roots == ExplicitRoots \cup {None}

\* how many times a handler made a call
Calls(log, call) == Cardinality({ i \in 1..Len(log) : log[i] = call })

\* C1: when a session exits, its body having completed or raised (and when an
\* open fails, which is an exit too), dill.Pickler.dispatch and
\* dill.Pickler.save are the objects they were just before that session was
\* opened, and the dispatch dict holds what it held then; with every session
\* exited they are the ones of before the first open.
C1_RestoredOnExit ==
    [][ /\ \A exc \in {"none", "BodyRaised"} :
            Close(exc) =>
                LET pre == Top(Cur).pre
                IN  /\ dispatch' = pre.dispatch
                    /\ save' = pre.save
                    /\ tables'[dispatch'] = pre.table
        /\ (last'.op = "open" /\ last'.err # "none") =>
                /\ dispatch' = dispatch
                /\ save' = save
                /\ tables'[dispatch'] = tables[dispatch]
        /\ (stack' = <<>> /\ shadow' = <<>>) =>
                /\ dispatch' = 1
                /\ save' = 0
                /\ tables'[1] = ImportedDispatch ]_vars

\* an inner session whose body raised has exited and the outer session's
\* wrapper and copy are installed again
C1_Witness ==
    /\ last.op = "close"
    /\ last.err = "BodyRaised"
    /\ Depth = 1
    /\ save = 1
    /\ dispatch = 2

\* C2: an open under a name that has an active context fails with the error
\* for a reused name and changes nothing; an open under a name with no active
\* context, in particular one closed cleanly before, succeeds (its root
\* directory existing, or none being given).
C2_ReusedName ==
    [][ \A name \in Names, rootdir \in Roots :
            Open(name, rootdir) =>
                IF name \in DOMAIN _contexts
                THEN /\ last'.err = "AlreadyCreated"
                     /\ UNCHANGED <<tables, dispatch, save, _contexts, stack, dirs, files>>
                ELSE (rootdir = None \/ rootdir \in dirs) =>
                         /\ last'.err = "none"
                         /\ name \in DOMAIN _contexts'
                         /\ stack'[_contexts'[name]].name = name ]_vars

\* the name was closed cleanly, opened again, and a further open under it is
\* rejected
C2_Witness ==
    /\ last.op = "open"
    /\ last.err = "AlreadyCreated"
    /\ last.name \in closed
    /\ last.name \in DOMAIN _contexts

ActiveUnder(name) == { i \in 1..Depth : stack[i].name = name }

\* C3: get_context(N) returns the context of the session open under N while
\* there is one, and raises otherwise; a name whose session has closed, cleanly
\* or not, is not in the registry any more.
C3_GetContext ==
    /\ \A name \in Names :
        /\ Cardinality(ActiveUnder(name)) <= 1
        /\ IF ActiveUnder(name) # {}
           THEN /\ GetContext(Cur, name).err = "none"
                /\ GetContext(Cur, name).ret \in ActiveUnder(name)
           ELSE GetContext(Cur, name).err = "NotCreated"
    /\ last.op = "get_context" =>
           IF ActiveUnder(last.name) # {}
           THEN last.err = "none" /\ last.ret \in ActiveUnder(last.name)
           ELSE last.err = "NotCreated"
    /\ last.op = "open" /\ last.err = "none" => _contexts[last.name] = last.ret
    /\ last.op = "close" => last.name \notin DOMAIN _contexts

\* the inner session's body raised: its name is gone, the outer one's is there
C3_Witness ==
    /\ last.op = "close"
    /\ last.err = "BodyRaised"
    /\ Depth = 1
    /\ GetContext(Cur, last.name).err = "NotCreated"
    /\ GetContext(Cur, stack[1].name).ret = 1

\* C4: an open on an explicit root directory that does not exist (under a free
\* name) fails with the error reporting the missing root directory, and makes
\* no temporary directory.
C4_MissingRoot ==
    [][ \A name \in Names, rootdir \in ExplicitRoots :
            (Open(name, rootdir) /\ name \notin DOMAIN _contexts /\ rootdir \notin dirs) =>
                /\ last'.err = "RootdirMissing"
                /\ dirs' = dirs ]_vars

\* C13: while a session is open, the dict that was dill.Pickler.dispatch when
\* it was opened holds what it held then, whatever _revert_dispatch pops and
\* puts back (and whatever the hook registers): those writes go to the copy
\* the innermost session installed.  It still holds that when the session has
\* closed.
C13_WritesGoToCopy ==
    [][ /\ \A i \in 1..Len(stack') :
               tables'[stack'[i].pre.dispatch] = stack'[i].pre.table
        /\ \A exc \in {"none", "BodyRaised"} :
               Close(exc) => tables'[Top(Cur).pre.dispatch] = Top(Cur).pre.table
        /\ (Depth > 0 /\ Len(stack') = Depth) =>
               /\ dispatch = Len(tables)
               /\ \A k \in 1..(Len(tables) - 1) : tables'[k] = tables[k] ]_vars

\* inside a session the GenericMeta entry is popped from the copy, not from
\* the dict of before the session
C13_Witness ==
    /\ Depth > 0
    /\ shadow # <<>>
    /\ tables[dispatch]["GenericMeta"] = NoEntry
    /\ tables[stack[1].pre.dispatch]["GenericMeta"] = "_save_annotation"
    /\ tables[dispatch] # stack[Depth].pre.table

\* C14: at most one session is open at any time: an open made while a session
\* is open, under its name or under another, does not leave two wrappers
\* installed and two contexts registered.
C14_OneSessionActive ==
    /\ Depth <= 1
    /\ save <= 1
    /\ Cardinality(DOMAIN _contexts) <= 1

\* C15: a close whose body completed saves the parameters, then deletes the
\* name from _contexts, then restores dill.Pickler.dispatch and save; a close
\* whose body raised does the same without the save.  No call deletes a name
\* from _contexts after it has restored the interceptor.
C15_CloseOrder ==
    [][ /\ \A exc \in {"none", "BodyRaised"} :
               Close(exc) =>
                   LET log == last'.log
                       At(call) == CHOOSE i \in 1..Len(log) : log[i] = call
                   IN  /\ Calls(log, "del") = 1
                       /\ Calls(log, "restore") = 1
                       /\ Calls(log, "save_params") = (IF exc = "none" THEN 1 ELSE 0)
                       /\ exc = "none" => At("save_params") = 1
                       /\ At("del") < At("restore")
                       /\ At("restore") = Len(log)
                       /\ exc = "none" => At("save_params") < At("del")
                       /\ Top(Cur).name \notin DOMAIN _contexts'
                       /\ save' = Top(Cur).pickler_save
        /\ \A i, j \in 1..Len(last'.log) :
               (i < j /\ last'.log[i] = "restore") => last'.log[j] # "del" ]_vars

\* a session on a temporary root closed cleanly
C15_Witness ==
    /\ last.op = "close"
    /\ last.err = "none"
    /\ last.log = <<"save_params", "rmtree", "del", "restore">>

\* C16: entering _revert_dispatch(t) removes the entry of t from the installed
\* dict and leaves every other entry, and every other dict, alone; the entry
\* stays removed until the scope is left; leaving the scope, its body having
\* raised or not, puts back the entry that was removed and changes nothing
\* else, the exception of the body staying the one raised.  Entering with no
\* entry for t raises KeyError and changes nothing.
C16_RevertDispatch ==
    [][ /\ \A t \in Types :
               RevertEnter(t) =>
                   IF tables[dispatch][t] = NoEntry
                   THEN /\ last'.err = "KeyError"
                        /\ UNCHANGED <<tables, dispatch, shadow>>
                   ELSE /\ last'.err = "none"
                        /\ tables' = [tables EXCEPT ![dispatch][t] = NoEntry]
                        /\ shadow'[Len(shadow')].f = tables[dispatch][t]
        /\ \A exc \in {"none", "BodyRaised"} :
               RevertExit(exc) =>
                   LET fr == shadow[Len(shadow)]
                   IN  /\ fr.f # NoEntry
                       /\ tables' = [tables EXCEPT ![dispatch][fr.t] = fr.f]
                       /\ last'.err = exc
        /\ \A i \in 1..Len(shadow') : tables'[dispatch'][shadow'[i].t] = NoEntry ]_vars

\* inside a session a scope on GenericMeta was left by an exception and the
\* entry is back in the session's dict
C16_Witness ==
    /\ last.op = "revert_exit"
    /\ last.name = "GenericMeta"
    /\ last.err = "BodyRaised"
    /\ Depth > 0
    /\ shadow = <<>>
    /\ tables[dispatch] = ImportedDispatch

(***************************************************************************)
(* Properties of the parameter file, under SpecParams.                     *)
(***************************************************************************)
\* C5: the manager writes the parameters on the success path only: closing a
\* session whose body raised does not call save_params and the parameter file
\* of its root holds what it held before the close; closing one whose body
\* completed calls save_params exactly once.
C5_FileKeptOnFailure ==
    [][ \A exc \in {"none", "BodyRaised"} :
            Close(exc) =>
                IF exc # "none"
                THEN /\ Calls(last'.log, "save_params") = 0
                     /\ files'[Top(Cur).root] = files[Top(Cur).root]
                ELSE Calls(last'.log, "save_params") = 1 ]_vars

\* C5 as amended: as C5, the file being kept on the failure path when the root
\* directory was given by the caller; the file of a session on a temporary
\* root is removed with the directory.  On the success path the one
\* save_params call writes the context's parameters.
C5_FileKeptOnExplicitRoot ==
    [][ \A exc \in {"none", "BodyRaised"} :
            Close(exc) =>
                LET fr == Top(Cur)
                IN  IF exc # "none"
                    THEN /\ Calls(last'.log, "save_params") = 0
                         /\ IF fr.owned
                            THEN files' = [files EXCEPT ![fr.root] = NoFile]
                            ELSE files' = files
                    ELSE /\ Calls(last'.log, "save_params") = 1
                         /\ ~fr.owned =>
                                files' = [files EXCEPT ![fr.root] =
                                             File(JsonDump(fr.context.parameters))] ]_vars

\* a session on the explicit root, whose file had been written, closed with
\* its body having raised
C5_Witness ==
    /\ last.op = "close"
    /\ last.err = "BodyRaised"
    /\ last.log = <<"del", "restore">>
    /\ files["root"].exists
    /\ files["root"].text # <<>>

Reloaded(ds, fs, root_dir) == NewContext(ds, fs, root_dir).context.parameters

StrKeyed(d) == \A i \in 1..Len(d) : d[i][1].type = "str"

\* C6: after a session on an explicit root closes cleanly, a context
\* constructed on that root has parameters equal to those the closed session
\* held; a context constructed on a root with no parameter file has none.
C6_ReloadedVerbatim ==
    [][ /\ (Close("none") /\ ~Top(Cur).owned) =>
               DictEq(Reloaded(dirs', files', Top(Cur).root), Top(Cur).context.parameters)
        /\ \A d \in dirs' :
               ~files'[d].exists => Reloaded(dirs', files', d) = EmptyDict ]_vars

\* C6 as amended: as C6 when the keys of the closed session's parameters are
\* all strings (json.dump writes an int key as its decimal string, which is
\* what json.load gives back).
C6_ReloadedWhenStrKeyed ==
    [][ /\ (Close("none") /\ ~Top(Cur).owned /\ StrKeyed(Top(Cur).context.parameters)) =>
               DictEq(Reloaded(dirs', files', Top(Cur).root), Top(Cur).context.parameters)
        /\ \A d \in dirs' :
               ~files'[d].exists => Reloaded(dirs', files', d) = EmptyDict ]_vars

\* a session was closed cleanly and the next one, opened on the same root,
\* holds the parameters reloaded from the file
C6_Witness ==
    /\ last.op = "open"
    /\ last.err = "none"
    /\ _DEFAULT \in closed
    /\ stack[1].root = "root"
    /\ stack[1].context.parameters # EmptyDict
    /\ DictEq(stack[1].context.parameters, Reloaded(dirs, files, "root"))

\* C20: a session opened without a root directory makes a directory that did
\* not exist, which exists as long as the session is open and is removed,
\* with the parameter file in it, when the session closes, its body having
\* raised or not; a session opened on a given root directory uses that one and
\* never removes it.
C20_TemporaryRoot ==
    [][ /\ \A i \in 1..Len(stack') :
               /\ stack'[i].root \in dirs'
               /\ stack'[i].owned <=> stack'[i].rootdir = None
               /\ ~stack'[i].owned => stack'[i].root = stack'[i].rootdir
               /\ stack'[i].context.root_dir = stack'[i].root
        /\ (last'.op = "open" /\ last'.err = "none" /\ Len(stack') > Depth) =>
               LET fr == stack'[Len(stack')]
               IN  IF fr.owned
                   THEN fr.root \notin dirs /\ dirs' = dirs \cup {fr.root}
                   ELSE dirs' = dirs
        /\ \A exc \in {"none", "BodyRaised"} :
               Close(exc) =>
                   LET fr == Top(Cur)
                   IN  IF fr.owned
                       THEN /\ dirs' = dirs \ {fr.root}
                            /\ fr.root \in dirs
                            /\ files'[fr.root] = NoFile
                       ELSE dirs' = dirs
        /\ ExplicitRoots \cap dirs \subseteq dirs' ]_vars

\* a session on a temporary root has closed cleanly: the parameters were
\* saved into the directory and both are gone
C20_Witness ==
    /\ last.op = "close"
    /\ last.err = "none"
    /\ last.log = <<"save_params", "rmtree", "del", "restore">>
    /\ Depth = 0
    /\ dirs = {"root"}
    /\ \A d \in AllDirs \ {"root"} : ~files[d].exists

(***************************************************************************)
(* Properties of the dependency discovery, under SpecModules.              *)
(***************************************************************************)
Recordable(obj) ==
    GetBaseModule(obj) # NoModule /\ GetBaseModule(obj).name \notin _BLACKLIST

Modules(i) == stack[i].context.modules

\* C7: every object the hook visits while a session is active, whose
\* top-level module is found and is not blacklisted, has that module recorded
\* in the context of that session.
C7_RecordedInOwnContext ==
    [][ \A obj \in Objects :
            (Save(obj) /\ Recordable(obj)) =>
                \A i \in 1..Depth : GetBaseModule(obj) \in stack'[i].context.modules ]_vars

\* C8: the hook adds the top-level ancestor of the object's module, and no
\* other module, to the module set when that module is found and is not
\* builtins, and adds nothing otherwise; so an object of package A.b puts A
\* (not A.b) among the package names, one of script S puts S among the script
\* names, and neither name shows in the other view.
C8_AddsTopLevelModule ==
    [][ \A obj \in Objects :
            Save(obj) =>
                LET base == GetBaseModule(obj)
                IN  /\ \A i \in 1..Depth :
                           stack'[i].context.modules \subseteq
                               Modules(i) \cup (IF Recordable(obj) THEN {base} ELSE {})
                    /\ Recordable(obj) =>
                           \E i \in 1..Depth :
                               LET ctx == stack'[i].context
                               IN  /\ base \in ctx.modules
                                   /\ Truthy(base.package) =>
                                          base.name \in PackageNames(ctx) \ ScriptNames(ctx)
                                   /\ (~Truthy(base.package) /\ base.name # <<"__main__">>) =>
                                          base.name \in ScriptNames(ctx) \ PackageNames(ctx) ]_vars

\* C9: the packages and the scripts of a context are disjoint parts of its
\* modules: a module is a package iff it has a parent package, a script iff it
\* has none and is not __main__, and what is in neither is __main__.
C9_Partition ==
    \A i \in 1..Depth :
        LET ctx == stack[i].context
        IN  /\ Packages(ctx) \cap Scripts(ctx) = {}
            /\ Packages(ctx) \cup Scripts(ctx) \subseteq ctx.modules
            /\ \A m \in ctx.modules :
                   /\ m \in Packages(ctx) <=> Truthy(m.package)
                   /\ m \in Scripts(ctx) <=> (~Truthy(m.package) /\ m.name # <<"__main__">>)
                   /\ m \notin Packages(ctx) \cup Scripts(ctx) =>
                          (~Truthy(m.package) /\ m.name = <<"__main__">>)
            /\ PackageNames(ctx) \cap ScriptNames(ctx) = {}

\* a context holding a package, a script and the entry module
C9_Witness ==
    \E i \in 1..Depth :
        /\ SysModule(<<"A">>) \in Packages(stack[i].context)
        /\ SysModule(<<"S">>) \in Scripts(stack[i].context)
        /\ SysModule(<<"__main__">>) \in Modules(i)

DefaultModules == { SysModule(_DEFAULT_MODULES[j]) : j \in 1..Len(_DEFAULT_MODULES) }

\* C10: from its yield to its close a context's module set holds both default
\* modules, and no call removes a module from it.
C10_ModulesGrow ==
    [][ /\ \A i \in 1..Len(stack') : DefaultModules \subseteq stack'[i].context.modules
        /\ \A i \in 1..Depth :
               i <= Len(stack') => Modules(i) \subseteq stack'[i].context.modules ]_vars

\* a context that has gathered modules from pickled objects and from the caller
C10_Witness ==
    \E i \in 1..Depth :
        /\ DefaultModules \subseteq Modules(i)
        /\ Cardinality(Modules(i)) >= 5

\* C18: for every object the wrapped save is called on in a session the hook
\* is called first; then a NamedTuple class other than Empty goes to
\* _save_namedtuple and not to dill's own save, and every other object, Empty
\* included, goes down to dill's own save and not to _save_namedtuple.
C18_HookThenOnePath ==
    [][ last'.op = "save" =>
            LET log == last'.log
                obj == last'.obj
            IN  /\ Len(log) > 0
                /\ log[1] = "_catch_object"
                /\ IF obj.kind = "namedtuple"
                   THEN /\ Calls(log, "_save_namedtuple") = 1
                        /\ Calls(log, "pickler_save") = 0
                   ELSE /\ Calls(log, "_save_namedtuple") = 0
                        /\ Calls(log, "pickler_save") = 1
                        /\ log[Len(log)] = "pickler_save" ]_vars

\* C19: an open refused because its name has an open session installs and
\* restores the interceptor and changes nothing: the name maps to the same
\* context, whose modules and parameters are what they were, every other
\* session is as it was, and dill.Pickler.dispatch and save are the dict and
\* the wrapper installed before the attempt.
C19_RefusedOpenChangesNothing ==
    [][ (last'.op = "open" /\ last'.err = "AlreadyCreated") =>
            /\ last'.log = <<"patch", "restore">>
            /\ last'.name \in DOMAIN _contexts
            /\ _contexts' = _contexts
            /\ stack'[_contexts'[last'.name]].name = last'.name
            /\ stack'[_contexts'[last'.name]].context = stack[_contexts[last'.name]].context
            /\ stack' = stack
            /\ dispatch' = dispatch /\ tables' = tables
            /\ save' = save /\ save' = Depth
            /\ UNCHANGED <<shadow, dirs, files, closed>> ]_vars

\* a session whose context had gathered modules kept them through a refused
\* open under its name
C19_Witness ==
    /\ last.op = "open"
    /\ last.err = "AlreadyCreated"
    /\ last.log = <<"patch", "restore">>
    /\ Depth = 1
    /\ save = 1
    /\ SysModule(<<"A">>) \in Modules(_contexts[last.name])
    /\ SysModule(<<"S">>) \in Modules(_contexts[last.name])

\* C12: add_module given a name that cannot be imported raises the error whose
\* message names that module, and given what is neither a str nor a module
\* raises the error about its type; both leave the module set as it was.  Given
\* a module it adds that module, given an importable name the module imported
\* under that name, and nothing else.
C12_AddModule ==
    [][ last'.op = "add_module" =>
        \A i \in 1..MaxDepth, arg \in ModuleArgs :
            AddModuleCall(i, arg) =>
                LET after == stack'[i].context.modules
                IN  CASE arg.kind = "module" ->
                             last'.err = "none" /\ after = Modules(i) \cup {arg.value}
                      [] arg.kind = "str" /\ arg.value.name \in ModuleNames ->
                             /\ last'.err = "none"
                             /\ after = Modules(i) \cup {SysModule(arg.value.name)}
                             /\ SysModule(arg.value.name).name = arg.value.name
                      [] arg.kind = "str" /\ arg.value.name \notin ModuleNames ->
                             /\ last'.err = "ImportFailed"
                             /\ last'.name = arg.value.name
                             /\ after = Modules(i)
                      [] OTHER ->
                             last'.err = "TypeMismatch" /\ after = Modules(i) ]_vars

\* a context that had imported A.b by name was then given what is no module
C12_Witness ==
    /\ last.op = "add_module"
    /\ last.err = "TypeMismatch"
    /\ SysModule(<<"A", "b">>) \in Modules(last.ret)
    /\ SysModule(<<"A">>) \notin Modules(last.ret)

(***************************************************************************)
(* Properties of the annotation codec, under SpecAnnotations.              *)
(***************************************************************************)
\* C11: for every annotation (Dict[K, V], List[T], nestings of these, a bare
\* Dict or List, a class that is no subscription), _load_annotation applied to
\* the (t, args) that _save_annotation produces gives the annotation back, and
\* so does unpickling what a dump that did not raise has written; with args
\* None _load_annotation returns t itself.
C11_RoundTrip ==
    [][ last'.op = "dump" =>
            LET obj == last'.obj
            IN  /\ obj.meta = "GenericMeta" =>
                       LoadAnnotation(ReduceArgs(obj)[1], ReduceArgs(obj)[2]) = obj
                /\ LoadAnnotation(obj, NoArgs) = obj
                /\ last'.err = "none" => last'.ret = obj ]_vars

\* a nested annotation was dumped inside a session and loads back as itself
C11_Witness ==
    /\ last.op = "dump"
    /\ last.err = "none"
    /\ Depth > 0
    /\ last.obj = GetItem(Dict, <<ClassNamed("str"), GetItem(List, <<ClassNamed("int")>>)>>)
    /\ last.ret = last.obj

\* the calls made from the i-th call of the log, a pop, to the reinstating
\* that ends its scope
ScopeEnd(log, i) == CHOOSE j \in (i + 1)..Len(log) : log[j] = "reinstate" /\
                        \A k \in (i + 1)..(j - 1) : log[k] # "reinstate"

\* C17: while _save_annotation encodes an annotation that is no subscription
\* of Dict or List, the GenericMeta entry is popped: every lookup made for a
\* GenericMeta object inside that scope finds no entry, so _save_annotation is
\* not called and no second scope is entered inside it; every scope entered
\* is left, and when the dump returns or raises the entry is in the dict again.
C17_NoReentry ==
    [][ last'.op = "dump" =>
            LET log == last'.log
            IN  /\ \A i \in 1..Len(log) :
                       log[i] = "pop" =>
                           /\ \E j \in (i + 1)..Len(log) : log[j] = "reinstate"
                           /\ \A k \in (i + 1)..(ScopeEnd(log, i) - 1) :
                                  log[k] \in {"_catch_object", NoEntry}
                           /\ i > 1 /\ log[i - 1] = "_save_annotation"
                /\ Calls(log, "pop") = Calls(log, "reinstate")
                /\ (last'.obj.meta = "GenericMeta" /\ last'.obj.origin = None
                        /\ Calls(log, "_save_annotation") = 1) =>
                       Calls(log, "pop") = 1
                /\ shadow' = <<>>
                /\ tables'[dispatch']["GenericMeta"] = "_save_annotation"
                /\ tables' = tables ]_vars

\* inside a session the encode of a class that no name imports raised inside
\* the scope, after an encode that did not
C17_Witness ==
    /\ last.op = "dump"
    /\ last.obj = GetItem(List, <<ClassNamed("Local")>>)
    /\ last.err = "PicklingError"
    /\ Calls(last.log, "pop") = 2
    /\ Depth > 0
    /\ tables[dispatch]["GenericMeta"] = "_save_annotation"

=============================================================================
